---- MODULE Spec2Model ----
(***************************************************************************)
(* pythovolve: the generational loop of EvolutionAlgorithm and its two     *)
(* strategies, GeneticAlgorithm and EvolutionStrategy (algorithm.py), over *)
(* the Individual data model (individuals.py).                             *)
(*                                                                         *)
(* Selector, Crossover, Mutator and the individuals a Problem creates are  *)
(* external: every value they may return is an input chosen with \E.       *)
(* A phenotype is an opaque value; the Problem scores it deterministically.*)
(***************************************************************************)
EXTENDS Integers, Sequences, FiniteSets, TLC

(***************************************************************************)
(* Bounds of the model.                                                    *)
(***************************************************************************)
\* population_size is drawn from -1 .. MaxPopulationSize
MaxPopulationSize == 2
\* max_generations is drawn from 0 .. MaxGenerations, and evolve() is called
\* again only while the generation counter is below MaxGenerations
MaxGenerations == 2
\* number of registered callbacks
NumCallbacks == 1
\* phenotype lists have up to MaxSize elements; create_random is called with
\* a size in 1 .. MaxSize
MaxSize == 2

\* Size of the initial population. The source builds range(300) individuals
\* whatever population_size is; the model scales the 300 down to a size that
\* population_size can be below, at and above.
InitialPopulationSize == 2

\* The phenotypes a Problem, a Crossover or a Mutator may produce: opaque
\* values, enough of them for equal and for different scores.
Phenotypes == {1, 2, 3}
Callbacks == 1 .. NumCallbacks

\* Individual._score = None
NotScored == 0

\* EvolutionAlgorithm.best = None / current_best = None
NoIndividual == [phenotype |-> 0, score |-> NotScored]

\* Individual(phenotype): a fresh, unscored individual
NewIndividual(p) == [phenotype |-> p, score |-> NotScored]

\* Problem.score_individual: a deterministic score > 0 of the phenotype;
\* phenotypes 2k-1 and 2k share the score k, so ties between different
\* phenotypes occur.
ProblemScore(p) == (p + 1) \div 2

ScoreIndividual(ind) == [ind EXCEPT !.score = ProblemScore(ind.phenotype)]

\* Individual.__lt__ on two scored individuals
Lt(a, b) == a.score < b.score

\* Individual.clone(): a new, unscored individual with a copy of the phenotype
Clone(ind) == NewIndividual(ind.phenotype)

Max2(a, b) == IF a >= b THEN a ELSE b
Min2(a, b) == IF a <= b THEN a ELSE b

\* Python's seq[:n], negative n included
Take(seq, n) ==
    IF n >= 0 THEN SubSeq(seq, 1, Min2(n, Len(seq)))
    ELSE SubSeq(seq, 1, Max2(Len(seq) + n, 0))

\* Python's seq[n:] for n >= 0
Drop(seq, n) == SubSeq(seq, Min2(n, Len(seq)) + 1, Len(seq))

\* insert x into the ascending sequence s behind every element not greater
RECURSIVE Insert(_, _)
Insert(s, x) ==
    IF s = <<>> THEN <<x>>
    ELSE IF Lt(x, Head(s)) THEN <<x>> \o s
    ELSE <<Head(s)>> \o Insert(Tail(s), x)

\* Python's sorted(): ascending by __lt__, stable
RECURSIVE SortedFrom(_, _)
SortedFrom(acc, rest) ==
    IF rest = <<>> THEN acc ELSE SortedFrom(Insert(acc, Head(rest)), Tail(rest))

Sorted(seq) == SortedFrom(<<>>, seq)

\* Python's min() of a non-empty sequence: the first minimal element
RECURSIVE MinFrom(_, _)
MinFrom(m, rest) ==
    IF rest = <<>> THEN m
    ELSE MinFrom(IF Lt(Head(rest), m) THEN Head(rest) ELSE m, Tail(rest))

MinOf(seq) == MinFrom(Head(seq), Tail(seq))

(***************************************************************************)
(* sigma is a float; the model keeps it as a fraction <<num, den>> in      *)
(* lowest terms.                                                           *)
(***************************************************************************)
RECURSIVE GCD(_, _)
GCD(a, b) == IF b = 0 THEN a ELSE GCD(b, a % b)

Norm(q) == LET g == GCD(q[1], q[2]) IN <<q[1] \div g, q[2] \div g>>

RatMul(a, b) == Norm(<<a[1] * b[1], a[2] * b[2]>>)
RatDiv(a, b) == Norm(<<a[1] * b[2], a[2] * b[1]>>)

\* sigma_start = 1.
SigmaStart == <<1, 1>>
\* sigma_multiplier = 1.15, the default
SigmaMultiplierDefault == <<23, 20>>
\* the multipliers the sigma rule is checked with: the default, and 1.0
SigmaMultipliers == {SigmaMultiplierDefault, <<1, 1>>}

VARIABLES
    algorithm,            \* "GA" or "ES": the class constructed
    population_size, num_elites, num_children, keep_parents,
    max_generations, sigma_multiplier,
    pc,                   \* where the caller / evolve() stands
    population, best, current_best,
    stop_evolving, generation,
    best_scores, current_best_scores,
    sigma,
    trials,               \* ES: <<parent, child>> of the generation just run
    events,               \* what the callbacks have been told, in order
    evolve_calls,         \* number of evolve() calls so far
    plot_progress,        \* the constructor's plot_progress argument
    plot_process,         \* "none", "running" or "exited": the plot process
    snapshots,            \* what evolve() has put on data_queue, in order
    taken,                \* how many of them the plot process has got
    individuals,          \* the Individual objects there are; the index is
                          \* the object's identity
    lists,                \* the list objects there are, by identity
    result                \* what the last operation on individuals did

config == <<algorithm, population_size, num_elites, num_children, keep_parents,
            max_generations, sigma_multiplier>>
popVars == <<population, best, current_best>>
histVars == <<generation, best_scores, current_best_scores>>
\* the fields of the algorithm and the position of its caller
algVars == <<config, pc, popVars, histVars, stop_evolving, sigma, trials, events,
             evolve_calls>>
\* the plot process and its queue
plotVars == <<plot_progress, plot_process, snapshots, taken>>
\* individuals as objects, and the outcome of the last operation on them
indVars == <<individuals, lists, result>>
vars == <<algVars, plotVars, indVars>>

\* the outcome of an operation on individuals: what it raised ("" when it
\* returned), the truth value or the number it returned
Outcome(op, left, right, raised, value, number) ==
    [op |-> op, left |-> left, right |-> right, raised |-> raised,
     value |-> value, number |-> number]
Raised(op, left, right, error) == Outcome(op, left, right, error, "None", 0)
Returned(op, left, right, value) == Outcome(op, left, right, "", value, 0)
NoResult == Returned("none", 0, 0, "None")

(***************************************************************************)
(* population.setter                                                       *)
(***************************************************************************)
\* mutant: the setter takes every current best as the best
NewBestAlways(cur, old) == cur

\* mutant: the setter replaces the best on a tie too
NewBestOnTie(cur, old) ==
    IF old = NoIndividual \/ cur.score <= old.score THEN cur ELSE old

\* best after the setter: replaced only by a strictly better current best
NewBest(cur, old) == IF old = NoIndividual \/ Lt(cur, old) THEN cur ELSE old

\* The setter's result. _population is assigned first and every member
\* scored; min() of an empty population raises ValueError and leaves
\* current_best and best as they were (raised = TRUE).
SetPopulation(pop, oldCur, oldBest) ==
    LET scored == [i \in DOMAIN pop |-> ScoreIndividual(pop[i])] IN
    IF scored = <<>>
    THEN [population |-> scored, current_best |-> oldCur, best |-> oldBest,
          raised |-> TRUE]
    ELSE [population |-> scored, current_best |-> MinOf(scored),
          best |-> NewBest(MinOf(scored), oldBest), raised |-> FALSE]

(***************************************************************************)
(* Construction                                                            *)
(***************************************************************************)
\* the fields before any constructor has run
InitState ==
    /\ pc = "new"
    /\ population = <<>>
    /\ best = NoIndividual
    /\ current_best = NoIndividual
    /\ stop_evolving = FALSE
    /\ generation = 0
    /\ best_scores = <<>>
    /\ current_best_scores = <<>>
    /\ sigma = SigmaStart
    /\ trials = <<>>
    /\ events = <<>>
    /\ evolve_calls = 0
    /\ plot_process = "none"
    /\ snapshots = <<>>
    /\ taken = 0
    /\ individuals = <<>>
    /\ lists = <<>>
    /\ result = NoResult

\* the constructor's arguments
Init ==
    /\ algorithm \in {"GA", "ES"}
    /\ population_size \in -1 .. MaxPopulationSize
    /\ max_generations \in 0 .. MaxGenerations
    /\ IF algorithm = "GA"
       THEN /\ num_elites \in 0 .. Max2(population_size, 0)
            /\ num_children = 0
            /\ keep_parents = FALSE
       ELSE /\ num_elites = 0
            /\ num_children \in 0 .. MaxPopulationSize
            /\ keep_parents \in BOOLEAN
    /\ sigma_multiplier = SigmaMultiplierDefault
    /\ plot_progress = FALSE
    /\ InitState

\* mutant: only the base constructor's check
ConstructorRaisesBaseOnly ==
    \/ algorithm = "ES" /\ FALSE
    \/ population_size = 0

\* "raise ValueError": EvolutionStrategy.__init__ checks num_children before
\* it calls the base constructor, which checks population_size == 0
ConstructorRaises ==
    \/ algorithm = "ES" /\ num_children > population_size
    \/ population_size = 0

\* __init__ of either class
Construct ==
    /\ pc = "new"
    /\ IF ConstructorRaises
       THEN /\ pc' = "ctor_error"
            /\ UNCHANGED popVars
       ELSE \E phs \in [1 .. InitialPopulationSize -> Phenotypes] :
              LET created == [i \in 1 .. InitialPopulationSize |-> NewIndividual(phs[i])]
                  set == SetPopulation(created, current_best, best)
              IN /\ population' = set.population
                 /\ current_best' = set.current_best
                 /\ best' = set.best
                 /\ pc' = IF set.raised THEN "ctor_error" ELSE "created"
    /\ UNCHANGED <<config, histVars, stop_evolving, sigma, trials, events,
                   evolve_calls>>

(***************************************************************************)
(* Callbacks                                                               *)
(***************************************************************************)
\* "for callback in self.callbacks: callback.<event>()": every callback is
\* told the event, in registration order; each notes the generation counter
\* and the length of the history it sees.
Fire(event) ==
    events \o [c \in Callbacks |->
                 [callback |-> c, event |-> event, generation |-> generation,
                  recorded |-> Len(best_scores)]]

(***************************************************************************)
(* EvolutionAlgorithm.evolve (plot_progress = False)                       *)
(***************************************************************************)
\* evolve() is called: on_train_start, then the stop flag is cleared
EvolveCall ==
    /\ pc \in {"created", "returned"}
    /\ generation < MaxGenerations
    /\ evolve_calls' = evolve_calls + 1
    /\ events' = Fire("on_train_start")
    /\ stop_evolving' = FALSE
    /\ pc' = "loop"
    /\ UNCHANGED <<config, popVars, histVars, sigma, trials>>

\* mutant: evolve_once begins without telling the callbacks
GenerationStartSilent ==
    /\ pc = "loop"
    /\ ~stop_evolving
    /\ \E request \in BOOLEAN : stop_evolving' = (stop_evolving \/ request)
    /\ pc' = "evolve_once"
    /\ UNCHANGED <<config, popVars, histVars, sigma, trials, events, evolve_calls>>

\* "while not self.stop_evolving" is passed and evolve_once begins with
\* on_generation_start; a callback may set the stop flag.
GenerationStart ==
    /\ pc = "loop"
    /\ ~stop_evolving
    /\ events' = Fire("on_generation_start")
    /\ \E request \in BOOLEAN : stop_evolving' = (stop_evolving \/ request)
    /\ pc' = "evolve_once"
    /\ UNCHANGED <<config, popVars, histVars, sigma, trials, evolve_calls>>

\* the loop ends: on_train_end, and evolve() returns
EvolveReturn ==
    /\ pc = "loop"
    /\ stop_evolving
    /\ events' = Fire("on_train_end")
    /\ pc' = "returned"
    /\ UNCHANGED <<config, popVars, histVars, stop_evolving, sigma, trials,
                   evolve_calls>>

\* the stop flag after "self.generation += 1; if generation >= max_generations"
StopAfter(gen) == IF gen >= max_generations THEN TRUE ELSE stop_evolving

\* mutant: the current-best history is not appended
FinishGenerationOneHistory(set) ==
    /\ population' = set.population
    /\ current_best' = set.current_best
    /\ best' = set.best
    /\ IF set.raised
       THEN /\ pc' = "error"
            /\ UNCHANGED <<histVars, stop_evolving>>
       ELSE /\ best_scores' = Append(best_scores, set.best.score)
            /\ current_best_scores' = current_best_scores
            /\ generation' = generation + 1
            /\ stop_evolving' = StopAfter(generation + 1)
            /\ pc' = "generation_end"

\* mutant: a set stop flag interrupts the generation
FinishGenerationPreempted(set) ==
    IF stop_evolving
    THEN /\ pc' = "loop"
         /\ UNCHANGED <<popVars, histVars, stop_evolving>>
    ELSE /\ population' = set.population
         /\ current_best' = set.current_best
         /\ best' = set.best
         /\ IF set.raised
            THEN /\ pc' = "error"
                 /\ UNCHANGED <<histVars, stop_evolving>>
            ELSE /\ best_scores' = Append(best_scores, set.best.score)
                 /\ current_best_scores' = Append(current_best_scores, set.current_best.score)
                 /\ generation' = generation + 1
                 /\ stop_evolving' = StopAfter(generation + 1)
                 /\ pc' = "generation_end"

\* the tail both evolve_once bodies share: the histories are appended, the
\* counter incremented and the stop flag set at the limit. When the setter
\* raised, the exception leaves evolve_once and evolve().
FinishGeneration(set) ==
    /\ population' = set.population
    /\ current_best' = set.current_best
    /\ best' = set.best
    /\ IF set.raised
       THEN /\ pc' = "error"
            /\ UNCHANGED <<histVars, stop_evolving>>
       ELSE /\ best_scores' = Append(best_scores, set.best.score)
            /\ current_best_scores' = Append(current_best_scores, set.current_best.score)
            /\ generation' = generation + 1
            /\ stop_evolving' = StopAfter(generation + 1)
            /\ pc' = "generation_end"

\* evolve_once ends with on_generation_end; a callback may set the stop flag.
\* The locals of evolve_once are gone.
GenerationEnd ==
    /\ pc = "generation_end"
    /\ events' = Fire("on_generation_end")
    /\ \E request \in BOOLEAN : stop_evolving' = (stop_evolving \/ request)
    /\ trials' = <<>>
    /\ pc' = "loop"
    /\ UNCHANGED <<config, popVars, histVars, sigma, evolve_calls>>

(***************************************************************************)
(* GeneticAlgorithm                                                        *)
(***************************************************************************)
\* mutant: the elites are taken from the front of the unsorted population
SplitElitesUnsorted(pop) ==
    IF num_elites = 0 THEN <<<<>>, pop>>
    ELSE <<Take(pop, num_elites), Drop(pop, num_elites)>>

\* _split_elites: <<elites, non-elites>>
SplitElites(pop) ==
    IF num_elites = 0 THEN <<<<>>, pop>>
    ELSE <<Take(Sorted(pop), num_elites), Drop(Sorted(pop), num_elites)>>

\* _generate_children: the number of children. population_size // 2 rounds
\* of two children, and one more child when that is short of population_size.
NumChildrenGA ==
    LET pairs == 2 * Max2(population_size \div 2, 0) IN
    IF pairs < population_size THEN pairs + 1 ELSE pairs

\* GeneticAlgorithm.evolve_once between its callbacks. Each child comes from
\* crossover(selector(population), selector(population)) and then from the
\* mutator: a new individual of any phenotype, unscored.
EvolveOnceGA ==
    /\ pc = "evolve_once"
    /\ algorithm = "GA"
    /\ \E phs \in [1 .. NumChildrenGA -> Phenotypes] :
         LET elites == SplitElites(population)[1]
             mutated == [i \in 1 .. NumChildrenGA |-> NewIndividual(phs[i])]
         IN FinishGeneration(SetPopulation(mutated \o elites, current_best, best))
    /\ UNCHANGED <<config, sigma, trials, events, evolve_calls>>

(***************************************************************************)
(* EvolutionStrategy                                                       *)
(***************************************************************************)
\* the 5 of "1 / 5 * self.num_children"
SuccessRuleDenominator == 5

\* mutant: a fifth of the children succeeding already widens the search
AdaptSigmaAtLeast(s, num_success) ==
    IF SuccessRuleDenominator * num_success >= num_children
    THEN RatMul(s, sigma_multiplier)
    ELSE RatDiv(s, sigma_multiplier)

\* _adapt_sigma. "num_success > 1 / 5 * num_children" compares with the float
\* 0.2 * num_children, which for the integers in reach decides as
\* 5 * num_success > num_children does.
AdaptSigma(s, num_success) ==
    IF SuccessRuleDenominator * num_success > num_children
    THEN RatMul(s, sigma_multiplier)
    ELSE RatDiv(s, sigma_multiplier)

\* _generate_children: the successes among the <<parent, child>> pairs
NumSuccess(tr) == Cardinality({i \in DOMAIN tr : tr[i][2].score < tr[i][1].score})

\* mutant: the parents never compete
PoolChildrenOnly(children) == children

\* the candidates of the selection: the children, and the parents behind them
\* when keep_parents is set
Pool(children) == IF keep_parents THEN children \o population ELSE children

\* what selector(population) may return
Members(pop) == {pop[i] : i \in DOMAIN pop}

\* EvolutionStrategy.evolve_once between its callbacks. Each child is the
\* mutator's result on a clone of selector(population): a member of the
\* population as parent, any phenotype as child, scored at once.
EvolveOnceES ==
    /\ pc = "evolve_once"
    /\ algorithm = "ES"
    /\ \E choice \in [1 .. num_children -> Members(population) \X Phenotypes] :
         LET tr == [i \in 1 .. num_children |->
                      <<choice[i][1],
                        ScoreIndividual([Clone(choice[i][1])
                                           EXCEPT !.phenotype = choice[i][2]])>>]
             children == [i \in 1 .. num_children |-> tr[i][2]]
             set == SetPopulation(Take(Sorted(Pool(children)), population_size),
                                  current_best, best)
         IN /\ trials' = tr
            /\ FinishGeneration(set)
            /\ sigma' = IF set.raised THEN sigma ELSE AdaptSigma(sigma, NumSuccess(tr))
    /\ UNCHANGED <<config, events, evolve_calls>>

\* evolve() with plot_progress = False: no plot process, no queue
Next ==
    \/ Construct /\ UNCHANGED <<plotVars, indVars>>
    \/ EvolveCall /\ UNCHANGED <<plotVars, indVars>>
    \/ GenerationStart /\ UNCHANGED <<plotVars, indVars>>
    \/ EvolveOnceGA /\ UNCHANGED <<plotVars, indVars>>
    \/ EvolveOnceES /\ UNCHANGED <<plotVars, indVars>>
    \/ GenerationEnd /\ UNCHANGED <<plotVars, indVars>>
    \/ EvolveReturn /\ UNCHANGED <<plotVars, indVars>>

Spec == Init /\ [][Next]_vars

(***************************************************************************)
(* The sigma rule on its threshold: an EvolutionStrategy with up to        *)
(* SuccessRuleDenominator children (one success in five is then exactly    *)
(* the fifth), run for its first generation.                               *)
(***************************************************************************)
InitRule ==
    /\ algorithm = "ES"
    /\ population_size = SuccessRuleDenominator
    /\ max_generations = 1
    /\ num_elites = 0
    /\ num_children \in 0 .. SuccessRuleDenominator
    /\ keep_parents \in BOOLEAN
    /\ sigma_multiplier \in SigmaMultipliers
    /\ plot_progress = FALSE
    /\ InitState

\* the first call of evolve()
FirstEvolveCall == generation = 0 /\ EvolveCall

NextRule ==
    \/ Construct /\ UNCHANGED <<plotVars, indVars>>
    \/ FirstEvolveCall /\ UNCHANGED <<plotVars, indVars>>
    \/ GenerationStart /\ UNCHANGED <<plotVars, indVars>>
    \/ EvolveOnceES /\ UNCHANGED <<plotVars, indVars>>
    \/ GenerationEnd /\ UNCHANGED <<plotVars, indVars>>
    \/ EvolveReturn /\ UNCHANGED <<plotVars, indVars>>

SpecRule == InitRule /\ [][NextRule]_vars

(***************************************************************************)
(* EvolutionAlgorithm.evolve with plot_progress = True: the plot process   *)
(* is started, every generation is followed by a put on data_queue, and    *)
(* the loop is left through "finally: plot_process.join()".                *)
(***************************************************************************)
InitPlot ==
    /\ algorithm \in {"GA", "ES"}
    /\ population_size = InitialPopulationSize
    /\ max_generations \in 0 .. MaxGenerations
    /\ IF algorithm = "GA"
       THEN /\ num_elites \in 0 .. InitialPopulationSize
            /\ num_children = 0
            /\ keep_parents = FALSE
       ELSE /\ num_elites = 0
            /\ num_children \in 0 .. InitialPopulationSize
            /\ keep_parents \in BOOLEAN
    /\ sigma_multiplier = SigmaMultiplierDefault
    /\ plot_progress = TRUE
    /\ InitState

\* evolve() is called: a fresh queue and plot process, started before the loop
EvolveCallPlot ==
    /\ plot_progress
    /\ EvolveCall
    /\ plot_process' = "running"
    /\ snapshots' = <<>>
    /\ taken' = 0
    /\ UNCHANGED <<plot_progress, indVars>>

\* mutant: the snapshot is put twice
PutSnapshotTwice ==
    snapshots \o << <<current_best_scores, best_scores, best>>,
                    <<current_best_scores, best_scores, best>> >>

\* data_queue.put((self.current_best_scores, self.best_scores, self.best)):
\* the queue is unbounded and put does not wait
PutSnapshot == Append(snapshots, <<current_best_scores, best_scores, best>>)

\* evolve_once ends with on_generation_end, and the snapshot is put
GenerationEndPlot ==
    /\ plot_progress
    /\ GenerationEnd
    /\ snapshots' = PutSnapshot
    /\ UNCHANGED <<plot_progress, plot_process, taken, indVars>>

\* the loop ends: plot_process.join() returns once the plot process has
\* exited, then on_train_end, and evolve() returns
EvolveReturnPlot ==
    /\ plot_progress
    /\ plot_process = "exited"
    /\ EvolveReturn
    /\ UNCHANGED <<plotVars, indVars>>

\* the loop test: into the next evolve_once, or out through join()
LoopStep ==
    \/ GenerationStart /\ UNCHANGED <<plotVars, indVars>>
    \/ EvolveReturnPlot

\* the steps of evolve() between its entry and its return
ProducerStep ==
    \/ LoopStep
    \/ EvolveOnceGA /\ UNCHANGED <<plotVars, indVars>>
    \/ EvolveOnceES /\ UNCHANGED <<plotVars, indVars>>
    \/ GenerationEndPlot

\* ProgressPlot._get_newest_data: an animation frame gets what it finds on
\* the queue
ConsumerTake ==
    /\ plot_process = "running"
    /\ \E n \in taken + 1 .. Len(snapshots) : taken' = n
    /\ UNCHANGED <<algVars, plot_progress, plot_process, snapshots, indVars>>

\* the plot process ends: plt.show() returns when the window is closed, or
\* the process fails
ConsumerExit ==
    /\ plot_process = "running"
    /\ plot_process' = "exited"
    /\ UNCHANGED <<algVars, plot_progress, snapshots, taken, indVars>>

NextPlot ==
    \/ Construct /\ UNCHANGED <<plotVars, indVars>>
    \/ EvolveCallPlot
    \/ ProducerStep
    \/ ConsumerTake
    \/ ConsumerExit

SpecPlot == InitPlot /\ [][NextPlot]_vars

(***************************************************************************)
(* Individuals as objects (individuals.py). An individual has an identity,  *)
(* a reference to its phenotype list, and a score or none. No algorithm is  *)
(* constructed in the specifications below.                                 *)
(***************************************************************************)
\* the identities of the individuals an operation can be given
Objects == {1, 2}
\* the scores a caller assigns
Scores == {1, 2}
\* the elements of a phenotype: cities 0 .. size - 1 of a path, real values,
\* and False and True as Python counts them (0 and 1)
Elements == 0 .. MaxSize - 1
Booleans == {0, 1}
\* the default value_range of a RealValueIndividual; no value_range otherwise
DefaultValueRange == <<-1, 1>>
NoValueRange == <<>>

\* the constructor's arguments, unused
NoAlgorithm ==
    /\ algorithm = "GA"
    /\ population_size = InitialPopulationSize
    /\ max_generations = 0
    /\ num_elites = 0
    /\ num_children = 0
    /\ keep_parents = FALSE
    /\ sigma_multiplier = SigmaMultiplierDefault
    /\ plot_progress = FALSE
    /\ InitState

\* cls(phenotype): the object Individual.__init__ leaves, phenotype being a
\* reference to a list
IndividualObject(type, list, value_range) ==
    [type |-> type, phenotype |-> list, score |-> NotScored,
     value_range |-> value_range]

\* the elements of individual i's phenotype
PhenotypeOf(i) == lists[individuals[i].phenotype]

\* Individual(phenotype) with a new list
CreateIndividual ==
    /\ Len(individuals) < Cardinality(Objects)
    /\ lists' = Append(lists, <<>>)
    /\ individuals' = Append(individuals,
                             IndividualObject("Individual", Len(lists) + 1, NoValueRange))
    /\ result' = Returned("Individual", Len(individuals) + 1, 0, "None")
    /\ UNCHANGED <<algVars, plotVars>>

\* individual.score = value
SetScore ==
    \E i \in DOMAIN individuals, value \in Scores :
        /\ individuals' = [individuals EXCEPT ![i].score = value]
        /\ result' = Returned("score.setter", i, 0, "None")
        /\ UNCHANGED <<algVars, plotVars, lists>>

HasScore(i) == individuals[i].score # NotScored

\* individual.score
ReadScore ==
    \E i \in DOMAIN individuals :
        /\ result' = IF HasScore(i)
                     THEN Outcome("score", i, 0, "", "None", individuals[i].score)
                     ELSE Raised("score", i, 0, "ValueError")
        /\ UNCHANGED <<algVars, plotVars, individuals, lists>>

NotImplemented == "NotImplemented"
Truth(b) == IF b THEN "True" ELSE "False"
Not(t) == IF t = "True" THEN "False" ELSE "True"

\* both score reads succeed; otherwise the ValueError is caught
BothScored(a, b) == HasScore(a) /\ HasScore(b)

\* Individual.__lt__
Individual_lt(a, b) ==
    IF BothScored(a, b)
    THEN Truth(individuals[a].score < individuals[b].score)
    ELSE NotImplemented

\* Individual.__eq__
Individual_eq(a, b) ==
    IF BothScored(a, b)
    THEN Truth(individuals[a].score = individuals[b].score)
    ELSE NotImplemented

\* object.__ne__: the inverse of __eq__ unless that is NotImplemented
Object_ne(a, b) ==
    IF Individual_eq(a, b) = NotImplemented THEN NotImplemented
    ELSE Not(Individual_eq(a, b))

\* a == b: __eq__, then the reflected __eq__, then identity
OperatorEq(a, b) ==
    IF Individual_eq(a, b) # NotImplemented THEN Individual_eq(a, b)
    ELSE IF Individual_eq(b, a) # NotImplemented THEN Individual_eq(b, a)
    ELSE Truth(a = b)

\* a != b: __ne__, then the reflected __ne__, then identity
OperatorNe(a, b) ==
    IF Object_ne(a, b) # NotImplemented THEN Object_ne(a, b)
    ELSE IF Object_ne(b, a) # NotImplemented THEN Object_ne(b, a)
    ELSE Truth(a # b)

\* the methods functools.total_ordering derives from __lt__
Gt_from_lt(a, b) ==
    IF Individual_lt(a, b) = NotImplemented THEN NotImplemented
    ELSE Truth(Individual_lt(a, b) = "False" /\ OperatorNe(a, b) = "True")
Le_from_lt(a, b) ==
    IF Individual_lt(a, b) = NotImplemented THEN NotImplemented
    ELSE Truth(Individual_lt(a, b) = "True" \/ OperatorEq(a, b) = "True")
Ge_from_lt(a, b) ==
    IF Individual_lt(a, b) = NotImplemented THEN NotImplemented
    ELSE Not(Individual_lt(a, b))

Orderings == {"<", "<=", ">", ">="}
Comparisons == Orderings \cup {"==", "!="}

\* the method of class Individual behind an ordering operator
Method(op, a, b) ==
    CASE op = "<" -> Individual_lt(a, b)
      [] op = "<=" -> Le_from_lt(a, b)
      [] op = ">" -> Gt_from_lt(a, b)
      [] op = ">=" -> Ge_from_lt(a, b)

\* the operator whose method is tried on the swapped operands
Reflected(op) ==
    CASE op = "<" -> ">"
      [] op = "<=" -> ">="
      [] op = ">" -> "<"
      [] op = ">=" -> "<="

\* a op b as Python evaluates it: the method, then the reflected method on
\* the swapped operands, then TypeError for an ordering
Compare(op, a, b) ==
    IF op = "==" THEN Returned(op, a, b, OperatorEq(a, b))
    ELSE IF op = "!=" THEN Returned(op, a, b, OperatorNe(a, b))
    ELSE IF Method(op, a, b) # NotImplemented
         THEN Returned(op, a, b, Method(op, a, b))
    ELSE IF Method(Reflected(op), b, a) # NotImplemented
         THEN Returned(op, a, b, Method(Reflected(op), b, a))
    ELSE Raised(op, a, b, "TypeError")

\* a comparison of two individuals, or of one with itself
CompareIndividuals ==
    \E op \in Comparisons, a \in DOMAIN individuals, b \in DOMAIN individuals :
        /\ result' = Compare(op, a, b)
        /\ UNCHANGED <<algVars, plotVars, individuals, lists>>

InitIndividuals == NoAlgorithm

NextIndividuals ==
    \/ CreateIndividual
    \/ SetScore
    \/ ReadScore
    \/ CompareIndividuals

SpecIndividuals == InitIndividuals /\ [][NextIndividuals]_vars

(***************************************************************************)
(* Creating and cloning individuals of the three classes, and changing     *)
(* their phenotypes in place.                                              *)
(***************************************************************************)
\* "([True, False] for _ in range(size))": a generator expression, here the
\* argument of random.choice
Generator(size) == [kind |-> "generator", yields |-> size]

\* random.choice(seq) starts with len(seq), which a generator does not have
RandomChoice(seq) ==
    IF seq.kind = "generator" THEN "TypeError" ELSE "element"

\* BinaryIndividual.create_random(size):
\* cls([random.choice([True, False] for _ in range(size))])
CreateRandomBinary ==
    \E size \in 1 .. MaxSize :
        /\ IF RandomChoice(Generator(size)) = "TypeError"
           THEN /\ result' = Raised("BinaryIndividual.create_random", size, 0, "TypeError")
                /\ UNCHANGED <<individuals, lists>>
           ELSE /\ Len(individuals) < Cardinality(Objects)
                /\ \E element \in Booleans :
                     /\ lists' = Append(lists, <<element>>)
                     /\ individuals' = Append(individuals,
                            IndividualObject("BinaryIndividual", Len(lists) + 1, NoValueRange))
                /\ result' = Returned("BinaryIndividual.create_random", size,
                                      Len(individuals) + 1, "None")
        /\ UNCHANGED <<algVars, plotVars>>

\* BinaryIndividual(phenotype) with a new list of booleans
ConstructBinary ==
    /\ individuals = <<>>
    /\ \E size \in 1 .. MaxSize : \E phenotype \in [1 .. size -> Booleans] :
         /\ lists' = Append(lists, phenotype)
         /\ individuals' = Append(individuals,
                IndividualObject("BinaryIndividual", Len(lists) + 1, NoValueRange))
         /\ result' = Returned("BinaryIndividual", size, Len(individuals) + 1, "None")
    /\ UNCHANGED <<algVars, plotVars>>

\* PathIndividual.create_random(size): random.sample(range(size), size)
CreateRandomPath ==
    /\ individuals = <<>>
    /\ \E size \in 1 .. MaxSize :
         \E phenotype \in {f \in [1 .. size -> 0 .. size - 1] :
                              \A i, j \in 1 .. size : f[i] = f[j] => i = j} :
           /\ lists' = Append(lists, phenotype)
           /\ individuals' = Append(individuals,
                  IndividualObject("PathIndividual", Len(lists) + 1, NoValueRange))
           /\ result' = Returned("PathIndividual.create_random", size,
                                 Len(individuals) + 1, "None")
    /\ UNCHANGED <<algVars, plotVars>>

\* RealValueIndividual.create_random(size): size uniform values
CreateRandomRealValue ==
    /\ individuals = <<>>
    /\ \E size \in 1 .. MaxSize : \E phenotype \in [1 .. size -> Elements] :
         /\ lists' = Append(lists, phenotype)
         /\ individuals' = Append(individuals,
                IndividualObject("RealValueIndividual", Len(lists) + 1, DefaultValueRange))
         /\ result' = Returned("RealValueIndividual.create_random", size,
                               Len(individuals) + 1, "None")
    /\ UNCHANGED <<algVars, plotVars>>

\* mutant: the clone is given the source's list itself
CloneIndividualShared ==
    /\ Len(individuals) < Cardinality(Objects)
    /\ \E i \in DOMAIN individuals :
         /\ lists' = lists
         /\ individuals' = Append(individuals,
                IndividualObject(individuals[i].type, individuals[i].phenotype,
                                 individuals[i].value_range))
         /\ result' = Returned("clone", i, Len(individuals) + 1, "None")
    /\ UNCHANGED <<algVars, plotVars>>

\* clone(): type(self)(self.phenotype[:]), for a RealValueIndividual with
\* self.value_range; the slice is a new list with the same elements
CloneIndividual ==
    /\ Len(individuals) < Cardinality(Objects)
    /\ \E i \in DOMAIN individuals :
         /\ lists' = Append(lists, PhenotypeOf(i))
         /\ individuals' = Append(individuals,
                IndividualObject(individuals[i].type, Len(lists) + 1,
                                 individuals[i].value_range))
         /\ result' = Returned("clone", i, Len(individuals) + 1, "None")
    /\ UNCHANGED <<algVars, plotVars>>

\* individual.phenotype[k] = element
SetItem ==
    \E i \in DOMAIN individuals :
      \E k \in DOMAIN PhenotypeOf(i), element \in Elements :
        /\ lists' = [lists EXCEPT ![individuals[i].phenotype][k] = element]
        /\ result' = Returned("setitem", i, 0, "None")
        /\ UNCHANGED <<algVars, plotVars, individuals>>

\* individual.phenotype.reverse()
Reverse ==
    \E i \in DOMAIN individuals :
        /\ lists' = [lists EXCEPT ![individuals[i].phenotype] =
                        [k \in DOMAIN @ |-> @[Len(@) + 1 - k]]]
        /\ result' = Returned("reverse", i, 0, "None")
        /\ UNCHANGED <<algVars, plotVars, individuals>>

\* individual.phenotype.append(element)
AppendItem ==
    \E i \in DOMAIN individuals, element \in Elements :
        /\ Len(PhenotypeOf(i)) < MaxSize
        /\ lists' = [lists EXCEPT ![individuals[i].phenotype] = Append(@, element)]
        /\ result' = Returned("append", i, 0, "None")
        /\ UNCHANGED <<algVars, plotVars, individuals>>

InitClone == NoAlgorithm

NextClone ==
    \/ CreateRandomBinary
    \/ ConstructBinary
    \/ CreateRandomPath
    \/ CreateRandomRealValue
    \/ CloneIndividual
    \/ SetItem
    \/ Reverse
    \/ AppendItem

SpecClone == InitClone /\ [][NextClone]_vars

(***************************************************************************)
(* Properties                                                              *)
(***************************************************************************)
Constructed == pc \notin {"new", "ctor_error"}

\* the population setter has completed on the population in place
Settled == Constructed /\ pc # "error"

NonIncreasing(seq) == \A i \in 1 .. Len(seq) - 1 : seq[i + 1] <= seq[i]

IsPrefix(a, b) == Len(a) <= Len(b) /\ SubSeq(b, 1, Len(a)) = a

Count(seq, v) == Cardinality({i \in DOMAIN seq : seq[i] = v})

\* a step in which an evolve_once body runs to its end
GenerationCompletes == pc = "evolve_once" /\ pc' = "generation_end"

\* C1: the tracked best score never increases: no step raises best.score,
\* every entry appended to best_scores is best.score at that moment, and
\* best_scores is non-increasing; for both strategies.
C1_BestNeverWorsens ==
    /\ [](NonIncreasing(best_scores))
    /\ [][/\ best # NoIndividual => (best' # NoIndividual /\ best'.score <= best.score)
          /\ GenerationCompletes =>
               best_scores' = Append(best_scores, best'.score)]_vars

\* the population of a completed generation is worse than the best on record
C1_Witness ==
    /\ pc = "generation_end"
    /\ current_best.score > best.score
    /\ best_scores[Len(best_scores)] = best.score

\* C2: after every evolve_once of a GeneticAlgorithm with population_size >= 1
\* the population holds population_size individuals.
C2_PopulationSizeGA ==
    (algorithm = "GA" /\ population_size >= 1 /\ generation >= 1)
        => Len(population) = population_size

\* old holds k (or all, when fewer) individuals no worse than its others,
\* each of which is in new with the same phenotype and score, as often
ElitesKept(old, new, k) ==
    \E E \in SUBSET DOMAIN old :
        /\ Cardinality(E) = Min2(k, Len(old))
        /\ \A i \in E : \A j \in (DOMAIN old) \ E : old[i].score <= old[j].score
        /\ \A i \in E : Cardinality({j \in E : old[j] = old[i]}) <= Count(new, old[i])

\* C3: every evolve_once of a GeneticAlgorithm carries the num_elites
\* lowest-score individuals of the old population into the new one with
\* phenotype and score unchanged.
C3_ElitesSurvive ==
    [][(algorithm = "GA" /\ GenerationCompletes)
          => ElitesKept(population, population', num_elites)]_vars

\* a generation with elites has completed, and a child in it is better than
\* an elite
C3_Witness ==
    /\ algorithm = "GA"
    /\ pc = "generation_end"
    /\ num_elites >= 1
    /\ Len(population) > num_elites
    /\ population[1].score < population[Len(population)].score

\* C4: with keep_parents, no evolve_once of an EvolutionStrategy raises the
\* current-best score (the minimum score of the population), so
\* current_best_scores is non-increasing.
C4_ElitistCurrentBest ==
    /\ []((algorithm = "ES" /\ keep_parents) => NonIncreasing(current_best_scores))
    /\ [][(algorithm = "ES" /\ keep_parents /\ GenerationCompletes)
             => /\ current_best'.score <= current_best.score
                /\ \A i \in DOMAIN population :
                     \E j \in DOMAIN population' :
                        population'[j].score <= population[i].score]_vars

\* every child of the generation is worse than the current best, which stayed
C4_Witness ==
    /\ algorithm = "ES"
    /\ keep_parents
    /\ pc = "generation_end"
    /\ trials # <<>>
    /\ \A i \in DOMAIN trials : trials[i][2].score > current_best.score

\* new is made of the lowest-score members of pool: it is part of pool, and
\* whatever of pool it leaves out is no better than any of its members
LowestOf(new, pool) ==
    /\ \A i \in DOMAIN new : Count(new, new[i]) <= Count(pool, new[i])
    /\ \A i \in DOMAIN pool :
         Count(pool, pool[i]) > Count(new, pool[i])
            => \A j \in DOMAIN new : new[j].score <= pool[i].score

\* C5: every evolve_once of an EvolutionStrategy leaves exactly population_size
\* individuals, the population_size lowest-score members of the pool (the
\* children, and the old population when keep_parents is set).
C5_TruncationSelection ==
    [][(algorithm = "ES" /\ GenerationCompletes)
          => LET children == [i \in DOMAIN trials' |-> trials'[i][2]]
                 pool == IF keep_parents THEN children \o population ELSE children
             IN /\ Len(population') = population_size
                /\ LowestOf(population', pool)]_vars

\* the children of the generation that improved on their parent
SuccessCount(tr) == Cardinality({i \in DOMAIN tr : tr[i][2].score < tr[i][1].score})

\* fractions a and b are the same number
SameNumber(a, b) == a[1] * b[2] = b[1] * a[2]

\* sigma after a generation with n successes, by the rule
RuleHolds(n) ==
    IF 5 * n > num_children
    THEN SameNumber(sigma', <<sigma[1] * sigma_multiplier[1], sigma[2] * sigma_multiplier[2]>>)
    ELSE SameNumber(sigma', <<sigma[1] * sigma_multiplier[2], sigma[2] * sigma_multiplier[1]>>)

\* the trials are num_children children, each with a parent of the population
TrialsOfGeneration ==
    /\ Len(trials') = num_children
    /\ \A i \in DOMAIN trials' : \E j \in DOMAIN population : trials'[i][1] = population[j]

C8_CounterAndHistories ==
    /\ [](/\ Len(best_scores) = generation
          /\ Len(current_best_scores) = generation
          /\ evolve_calls = 0 => generation = 0)
    /\ [][/\ IsPrefix(best_scores, best_scores')
          /\ IsPrefix(current_best_scores, current_best_scores')
          /\ IF GenerationCompletes
             THEN /\ generation' = generation + 1
                  /\ Len(best_scores') = Len(best_scores) + 1
                  /\ Len(current_best_scores') = Len(current_best_scores) + 1
             ELSE UNCHANGED histVars]_vars

\* two generations have run and evolve() has returned
C8_Witness ==
    /\ pc = "returned"
    /\ generation = 2
    /\ Len(best_scores) = 2

\* what callback c has been told, in order
EventsOf(c) == SelectSeq(events, LAMBDA e : e.callback = c)

\* the event that may follow event a as event b, for one callback
Follows(a, b) ==
    CASE a.event = "on_train_start" ->
            b.event = "on_generation_start" /\ b.generation = a.generation
      [] a.event = "on_generation_start" ->
            /\ b.event = "on_generation_end"
            /\ b.generation = a.generation + 1
            /\ b.recorded = a.recorded + 1
      [] a.event = "on_generation_end" ->
            /\ b.event \in {"on_generation_start", "on_train_end"}
            /\ b.generation = a.generation
      [] a.event = "on_train_end" -> b.event = "on_train_start"

\* C9: each callback is told on_train_start first, then for every generation
\* on_generation_start before the transition and on_generation_end after the
\* history append and the increment, alternating, and on_train_end once
\* after the last on_generation_end of the call.
C9_CallbackOrder ==
    \A c \in Callbacks :
        LET e == EventsOf(c) IN
        /\ e # <<>> => e[1].event = "on_train_start"
        /\ \A i \in 1 .. Len(e) - 1 : Follows(e[i], e[i + 1])
        /\ Cardinality({i \in DOMAIN e : e[i].event = "on_train_start"}) = evolve_calls
        /\ pc = "loop" => e[Len(e)].event \in {"on_train_start", "on_generation_end"}
        /\ pc = "evolve_once" =>
              /\ e[Len(e)].event = "on_generation_start"
              /\ e[Len(e)].generation = generation
        /\ pc = "generation_end" =>
              /\ e[Len(e)].event = "on_generation_start"
              /\ e[Len(e)].generation + 1 = generation
        /\ pc = "returned" => e[Len(e)].event = "on_train_end"

\* one evolve() call of two generations has returned
C9_Witness ==
    /\ pc = "returned"
    /\ [i \in DOMAIN EventsOf(1) |-> EventsOf(1)[i].event]
         = <<"on_train_start", "on_generation_start", "on_generation_end",
             "on_generation_start", "on_generation_end", "on_train_end">>

\* C10: the generation counter never exceeds max_generations, over any
\* sequence of evolve() calls.
C10_StopsAtLimit == generation <= max_generations

\* C11: a constructor called with a population_size that is not > 0 raises,
\* and no individual is created or scored and no algorithm becomes usable.
C11_NonPositiveSizeRejected ==
    (population_size <= 0 /\ pc # "new")
        => (pc = "ctor_error" /\ population = <<>> /\ best = NoIndividual)

\* C12: EvolutionStrategy's constructor called with num_children >
\* population_size raises before any individual is created or scored, and a
\* constructed EvolutionStrategy has num_children <= population_size.
C12_ChildrenWithinPopulation ==
    algorithm = "ES" =>
        /\ (num_children > population_size /\ pc # "new")
              => /\ pc = "ctor_error"
                 /\ population = <<>>
                 /\ best = NoIndividual
                 /\ current_best = NoIndividual
        /\ Constructed => num_children <= population_size

\* the constructor has raised for num_children > population_size alone
C12_Witness ==
    /\ algorithm = "ES"
    /\ population_size >= 1
    /\ num_children > population_size
    /\ pc = "ctor_error"

\* the histories have grown by one entry each and the counter by one
GenerationRecorded ==
    /\ generation' = generation + 1
    /\ Len(best_scores') = Len(best_scores) + 1
    /\ Len(current_best_scores') = Len(current_best_scores) + 1

C17_EvolveReturns ==
    (evolve_calls = 1 /\ max_generations >= 1) =>
        /\ pc # "error"
        /\ generation <= max_generations
        /\ (generation = max_generations /\ pc \in {"generation_end", "loop"})
              => stop_evolving
        /\ pc = "returned" => generation >= 1

\* the generation counter when the evolve() call in progress (or the last
\* one) began: what its on_train_start saw
StartGeneration ==
    LET starts == {i \in DOMAIN events : events[i].event = "on_train_start"}
        last == CHOOSE i \in starts : \A j \in starts : j <= i
    IN events[last].generation

\* generations whose evolve_once has returned in this evolve() call
GenerationsDone ==
    (generation - StartGeneration) - (IF pc = "generation_end" THEN 1 ELSE 0)

\* a step of evolve() as it is without the plot process
AlgorithmStep ==
    \/ Construct
    \/ EvolveCall
    \/ GenerationStart
    \/ EvolveOnceGA
    \/ EvolveOnceES
    \/ GenerationEnd
    \/ EvolveReturn

\* C18: with plot_progress enabled, the queue has been given exactly one
\* snapshot per generation completed in the evolve() call, the i-th being
\* the histories and best as they were after the i-th generation's
\* evolve_once; and every step changes the algorithm's fields as a step of
\* evolve() without plotting does.
C18_OneSnapshotPerGeneration ==
    /\ [](plot_progress /\ evolve_calls >= 1 =>
            /\ Len(snapshots) = GenerationsDone
            /\ \A i \in DOMAIN snapshots :
                 /\ snapshots[i][1] = SubSeq(current_best_scores, 1, StartGeneration + i)
                 /\ snapshots[i][2] = SubSeq(best_scores, 1, StartGeneration + i)
                 /\ snapshots[i][3].score = best_scores[StartGeneration + i])
    /\ [][plot_progress => AlgorithmStep]_algVars

\* an evolve() call of two generations has returned with plotting enabled
C18_Witness ==
    /\ plot_progress
    /\ pc = "returned"
    /\ evolve_calls = 1
    /\ generation = 2
    /\ Len(snapshots) = 2
    /\ snapshots[1] # snapshots[2]

\* C19: with plot_progress enabled evolve() never waits on the plot process:
\* whatever the plot process does or fails to do, evolve() can put its
\* snapshot after a generation and can take its next step at the loop test,
\* into the next generation or to on_train_end and its return.
C19_NeverWaitsOnConsumer ==
    plot_progress =>
        /\ pc = "generation_end" => ENABLED GenerationEndPlot
        /\ pc = "loop" => ENABLED LoopStep

\* the truth of x op y on two scores
ScoreOrder(op, x, y) ==
    CASE op = "<" -> x < y
      [] op = "<=" -> x <= y
      [] op = ">" -> x > y
      [] op = ">=" -> x >= y
      [] op = "==" -> x = y

\* C13: reading the score of an unscored individual raises the not-yet-
\* scored error (ValueError); <, <=, >, >= and == with an unscored operand
\* raise instead of returning a truth value; on two scored individuals they
\* return what the same operator gives on the two scores.
C13_ComparisonsRequireScores ==
    /\ result.op = "score" =>
          IF HasScore(result.left)
          THEN result.raised = "" /\ result.number = individuals[result.left].score
          ELSE result.raised = "ValueError"
    /\ result.op \in Orderings \cup {"=="} =>
          IF BothScored(result.left, result.right)
          THEN /\ result.raised = ""
               /\ result.value = Truth(ScoreOrder(result.op,
                                                  individuals[result.left].score,
                                                  individuals[result.right].score))
          ELSE result.raised # ""

\* C14: clone() makes a new individual of the same class whose phenotype
\* has the source's elements and leaves every existing phenotype as it was;
\* an in-place change (element assignment, reverse, append) of one
\* individual's phenotype leaves the phenotype of every other individual,
\* its clones and its source included, unchanged; no two individuals hold
\* the same list.
C14_CloneIndependent ==
    /\ [](\A i, j \in DOMAIN individuals :
            i # j => individuals[i].phenotype # individuals[j].phenotype)
    /\ [][result'.op = "clone" =>
            /\ result'.left \in DOMAIN individuals
            /\ result'.right \notin DOMAIN individuals
            /\ result'.right \in DOMAIN individuals'
            /\ individuals'[result'.right].type = individuals[result'.left].type
            /\ lists'[individuals'[result'.right].phenotype] = PhenotypeOf(result'.left)
            /\ \A k \in DOMAIN individuals :
                 lists'[individuals'[k].phenotype] = PhenotypeOf(k)]_vars
    /\ [][result'.op \in {"setitem", "reverse", "append"} =>
            \A k \in DOMAIN individuals :
              k # result'.left => lists'[individuals'[k].phenotype] = PhenotypeOf(k)]_vars

\* an element of the clone has been assigned and the source differs from it
C14_Witness ==
    /\ Len(individuals) = 2
    /\ result.op = "setitem"
    /\ result.left = 2
    /\ Len(PhenotypeOf(1)) = Len(PhenotypeOf(2))
    /\ PhenotypeOf(1) # PhenotypeOf(2)

\* C15: BinaryIndividual.create_random(size) returns an individual whose
\* phenotype has exactly size elements, each a boolean.
C15_RandomBinaryPhenotype ==
    result.op = "BinaryIndividual.create_random" =>
        /\ result.raised = ""
        /\ result.right \in DOMAIN individuals
        /\ Len(PhenotypeOf(result.right)) = result.left
        /\ \A k \in DOMAIN PhenotypeOf(result.right) :
              PhenotypeOf(result.right)[k] \in Booleans

\* C20: right after construction the population holds population_size
\* individuals, all of them scored.
C20_InitialPopulationSize ==
    pc = "created" =>
        /\ Len(population) = population_size
        /\ \A i \in DOMAIN population : population[i].score # NotScored

====
